---- MODULE Spec2Model ----
(***************************************************************************)
(* The gas fee store of the wallet: the redux module of                    *)
(* src/src/components/coin-icon/CoinIconIndicator.tsx (lines 48-774), its  *)
(* polling loop (gasPricesStartPolling / watchGasPrices / getGasPrices),   *)
(* its thunks and its reducer.                                             *)
(*                                                                         *)
(* Numbers are decimals [m, e] standing for m * 10^e, as the BigNumber     *)
(* strings of the source; per-gas amounts and fees are in wei, balances in *)
(* units of the native asset.                                              *)
(***************************************************************************)
EXTENDS Integers, Sequences, FiniteSets, TLC

VARIABLES
    gas,             \* getState().gas, the reducer's state
    assets,          \* getState().data.assets, the wallet's asset list
    gasPricesHandle, \* the module-level timer handle (line 121)
    timers,          \* timers armed by setTimeout and not yet fired or cleared
    inflight,        \* getGasPrices calls suspended at their fetch
    nextId,          \* ids handed to ticks, timers and parameter objects
    gen,             \* number of gasPricesStartPolling calls so far
    active,          \* started and not stopped since
    nOps,            \* number of UI operations so far
    last             \* the operation that produced this state

vars == <<gas, assets, gasPricesHandle, timers, inflight, nextId,
          gen, active, nOps, last>>

\* ------------------------------------------------------------------ bounds
\* ticks begun, gasPricesStartPolling calls, UI operations, ticks and UI
\* operations together, and the answers a fee source can give
MaxIds == 3
MaxStarts == 2
MaxOps == 2
MaxWork == 4
MaxQuote == 2

\* ------------------------------------------------------------ JS values
\* undefined / null where the source holds a number
NoVal == -1
\* null where the source holds a timer handle
NoHandle == 0
\* {} where the source holds the confirmation-time table
EmptyObject == 0
Undefined == [m |-> NoVal, e |-> 0]
NoOption == "undefined"
NoNetwork == "null"
Null == <<>>
Bool(b) == <<b>>

mainnet == "mainnet"
polygon == "polygon"
arbitrum == "arbitrum"
optimism == "optimism"
Networks == {mainnet, polygon, arbitrum, optimism}
\* the networks gasPricesStartPolling is called with
PolledNetworks == {mainnet, polygon, arbitrum, optimism}

CUSTOM == "custom"
NORMAL == "normal"
FAST == "fast"
URGENT == "urgent"
SLOW == "slow"
GasSpeedOrder == {NORMAL, FAST, URGENT, CUSTOM}

ETH_ADDRESS == "eth"
MATIC_POLYGON_ADDRESS == "matic-polygon"
ARBITRUM_ETH_ADDRESS == "eth-arbitrum"
OPTIMISM_ETH_ADDRESS == "eth-optimism"

basic_tx == 21000

\* ------------------------------------------------------------- decimals
RECURSIVE Pow10(_)
Pow10(n) == IF n <= 0 THEN 1 ELSE 10 * Pow10(n - 1)

RECURSIVE Digits(_)
Digits(n) == IF n < 10 THEN 1 ELSE 1 + Digits(n \div 10)

RECURSIVE Dec(_, _)
Dec(m, e) ==
    IF m = 0 THEN [m |-> 0, e |-> 0]
    ELSE IF m % 10 = 0 THEN Dec(m \div 10, e + 1)
    ELSE [m |-> m, e |-> e]

IsNumber(x) == x.m >= 0
\* x?.amount || 0
OrZero(x) == IF IsNumber(x) THEN x ELSE Dec(0, 0)

Min(a, b) == IF a <= b THEN a ELSE b

multiply(a, b) == Dec(a.m * b.m, a.e + b.e)

add(a, b) ==
    LET lo == Min(a.e, b.e)
    IN  IF a.m = 0 THEN b
        ELSE IF b.m = 0 THEN a
        ELSE Dec(a.m * Pow10(a.e - lo) + b.m * Pow10(b.e - lo), lo)

greaterThanOrEqualTo(a, b) ==
    IF b.m = 0 THEN TRUE
    ELSE IF a.m = 0 THEN FALSE
    ELSE LET ma == Digits(a.m) + a.e
             mb == Digits(b.m) + b.e
             lo == Min(a.e, b.e)
         IN  IF ma # mb THEN ma > mb
             ELSE a.m * Pow10(a.e - lo) >= b.m * Pow10(b.e - lo)

fromWei(x) == Dec(x.m, x.e - 18)
weiToGwei(x) == Dec(x.m, x.e - 9)
gweiToWei(x) == Dec(x.m, x.e + 9)
\* Math.ceil(Number(s))
ceil(x) ==
    IF x.e >= 0 THEN x
    ELSE LET p == Pow10(0 - x.e)
         IN  Dec((x.m + p - 1) \div p, 0)

Gwei(n) == Dec(n, 9)

\* ------------------------------------------------- fee parameters and fees
\* One tier of gasFeeParamsBySpeed. oid is the identity of the JS object: two
\* holders of the same oid hold the same object, so a write through one of
\* them is seen through the other.
GasFeeParams(oid, maxFee, prio, base, time) ==
    [oid |-> oid, maxFeePerGas |-> maxFee, maxPriorityFeePerGas |-> prio,
     baseFeePerGas |-> base, gasPrice |-> Undefined, estimatedTime |-> time]

LegacyGasFeeParams(oid, price, time) ==
    [oid |-> oid, maxFeePerGas |-> Undefined, maxPriorityFeePerGas |-> Undefined,
     baseFeePerGas |-> Undefined, gasPrice |-> price, estimatedTime |-> time]

UndefinedParams ==
    [oid |-> NoVal, maxFeePerGas |-> Undefined, maxPriorityFeePerGas |-> Undefined,
     baseFeePerGas |-> Undefined, gasPrice |-> Undefined, estimatedTime |-> Undefined]

UndefinedValue == [amount |-> Undefined, native |-> Undefined]
UndefinedFee == [estimatedFee |-> UndefinedValue, maxFee |-> UndefinedValue]

EmptyTable == <<>>
isEmpty(table) == DOMAIN table = {}
ParamsOf(table, speed) ==
    IF speed \in DOMAIN table THEN table[speed] ELSE UndefinedParams
FeeOf(table, speed) ==
    IF speed \in DOMAIN table THEN table[speed] ELSE UndefinedFee

\* a || b on numbers, on options and on decimals
OrNumber(a, b) == IF a # NoVal /\ a # 0 THEN a ELSE b
OrOption(a, b) == IF a # NoOption THEN a ELSE b

\* the object id of the tier `speed` made by the tick or edit `id`
TierIndex(speed) ==
    CASE speed = NORMAL -> 0 [] speed = FAST -> 1 [] speed = URGENT -> 2
      [] OTHER -> 3
ObjectId(id, speed) == 4 * id + TierIndex(speed)

isL2Network(network) == network \in {polygon, arbitrum, optimism}

getEthPriceUnit == Dec(2000, 0)
getMaticPriceUnit == Dec(1, 0)

getTxFee(amount, priceUnit) ==
    [amount |-> amount, native |-> multiply(fromWei(amount), priceUnit)]

estimatedTimeFor(confirmationTime, prio) ==
    IF confirmationTime <= 0 THEN Undefined
    ELSE IF greaterThanOrEqualTo(OrZero(prio), Gwei(3)) THEN Dec(15 * confirmationTime, 0)
    ELSE IF greaterThanOrEqualTo(OrZero(prio), Gwei(2)) THEN Dec(30 * confirmationTime, 0)
    ELSE Dec(60 * confirmationTime, 0)

defaultGasParamsFormat(oid, base, maxFee, prio, confirmationTime) ==
    GasFeeParams(oid, maxFee, prio, base, estimatedTimeFor(confirmationTime, prio))

parseGasFees(params, baseFeePerGas, gasLimit, priceUnit) ==
    LET prio == OrZero(params.maxPriorityFeePerGas)
        maxFeePerGas == OrZero(params.maxFeePerGas)
        base == OrZero(baseFeePerGas)
    IN  [estimatedFee |-> getTxFee(multiply(add(base, prio), Dec(gasLimit, 0)), priceUnit),
         maxFee |-> getTxFee(multiply(maxFeePerGas, Dec(gasLimit, 0)), priceUnit)]

parseGasFeesBySpeed(table, baseFeePerGas, gasLimit, priceUnit) ==
    [speed \in DOMAIN table |->
        parseGasFees(table[speed], baseFeePerGas, gasLimit, priceUnit)]

parseLegacyGasFeesBySpeed(table, gasLimit, priceUnit, l1GasFeeOptimism) ==
    [speed \in DOMAIN table |->
        [estimatedFee |->
            getTxFee(add(multiply(OrZero(table[speed].gasPrice), Dec(gasLimit, 0)),
                         OrZero(l1GasFeeOptimism)), priceUnit),
         maxFee |-> UndefinedValue]]

\* -------------------------------------------------------- selection engine
\* a mutation: the switch has lost its cases, ETH pays everywhere
getNetworkNativeAsset_EthOnly(wallet, network) ==
    IF ETH_ADDRESS \in DOMAIN wallet THEN wallet[ETH_ADDRESS] ELSE Undefined

getNetworkNativeAsset(wallet, network) ==
    LET nativeAssetAddress ==
            CASE network = polygon -> MATIC_POLYGON_ADDRESS
              [] network = arbitrum -> ARBITRUM_ETH_ADDRESS
              [] network = optimism -> OPTIMISM_ETH_ADDRESS
              [] OTHER -> ETH_ADDRESS
    IN  IF nativeAssetAddress \in DOMAIN wallet
        THEN wallet[nativeAssetAddress] ELSE Undefined

\* a mutation: a balance equal to the fee does not suffice
checkIsSufficientGas_Strict(wallet, txFee, network) ==
    LET txFeeValue ==
            IF txFee.maxFee # UndefinedValue THEN txFee.maxFee ELSE txFee.estimatedFee
        balanceAmount == OrZero(getNetworkNativeAsset(wallet, network))
        txFeeAmount == fromWei(OrZero(txFeeValue.amount))
    IN  ~greaterThanOrEqualTo(txFeeAmount, balanceAmount)

checkIsSufficientGas(wallet, txFee, network) ==
    LET txFeeValue ==
            IF txFee.maxFee # UndefinedValue THEN txFee.maxFee ELSE txFee.estimatedFee
        balanceAmount == OrZero(getNetworkNativeAsset(wallet, network))
        txFeeAmount == fromWei(OrZero(txFeeValue.amount))
    IN  greaterThanOrEqualTo(balanceAmount, txFeeAmount)

\* a mutation: the estimated time is always the normal tier's
getSelectedGasFee_NormalTime(wallet, paramsBySpeed, feesBySpeed, option, network) ==
    LET selectedGasParams == ParamsOf(paramsBySpeed, option)
        selectedTxFee == FeeOf(feesBySpeed, option)
    IN  [isSufficientGas |-> Bool(checkIsSufficientGas(wallet, selectedTxFee, network)),
         selectedGasFee |->
            [estimatedTime |-> ParamsOf(paramsBySpeed, NORMAL).estimatedTime,
             gasFee |-> selectedTxFee,
             gasFeeParams |-> selectedGasParams,
             option |-> option]]

getSelectedGasFee(wallet, paramsBySpeed, feesBySpeed, option, network) ==
    LET selectedGasParams == ParamsOf(paramsBySpeed, option)
        selectedTxFee == FeeOf(feesBySpeed, option)
    IN  [isSufficientGas |-> Bool(checkIsSufficientGas(wallet, selectedTxFee, network)),
         selectedGasFee |->
            [estimatedTime |-> selectedGasParams.estimatedTime,
             gasFee |-> selectedTxFee,
             gasFeeParams |-> selectedGasParams,
             option |-> option]]

getUpdatedGasFeeParams(wallet, currentBaseFee, paramsBySpeed, gasLimit, option, txNetwork, l1GasFeeOptimism) ==
    LET nativeTokenPriceUnit ==
            IF txNetwork # polygon THEN getEthPriceUnit ELSE getMaticPriceUnit
        feesBySpeed ==
            IF isL2Network(txNetwork)
            THEN parseLegacyGasFeesBySpeed(paramsBySpeed, gasLimit,
                                           nativeTokenPriceUnit, l1GasFeeOptimism)
            ELSE parseGasFeesBySpeed(paramsBySpeed, currentBaseFee, gasLimit,
                                     nativeTokenPriceUnit)
        selected == getSelectedGasFee(wallet, paramsBySpeed, feesBySpeed, option,
                                      txNetwork)
    IN  [gasFeesBySpeed |-> feesBySpeed,
         isSufficientGas |-> selected.isSufficientGas,
         selectedGasFee |-> selected.selectedGasFee]

\* ---------------------------------------------------------- fee sources
\* What the remote sources answer is drawn from 1..MaxQuote.
Quotes == 1..MaxQuote

rainbowMeteorologyGetData(q) ==
    [currentBaseFee |-> Gwei(10 * q), baseFeeSuggestion |-> Gwei(10 * q + 2),
     baseFeeTrend |-> q - 1, confirmationTimeByPriorityFee |-> q]

\* the answers have fractional and whole prices (q = 1: 30.2, 35.8, 40.1;
\* q = 2: 41, 45.8, 50.1)
polygonGasStationGetGasPrices(q) ==
    [SafeGasPrice |-> IF q % 2 = 0 THEN Dec(10 * q + 21, 0)
                      ELSE Dec(100 * q + 202, 0 - 1),
     ProposeGasPrice |-> Dec(100 * q + 258, 0 - 1),
     FastGasPrice |-> Dec(100 * q + 301, 0 - 1)]

\* provider.getGasPrice(), in wei
getGasPrice(q) == Gwei(q)

parseRainbowMeteorologyData(data, id) ==
    LET tier(speed, k) ==
            defaultGasParamsFormat(ObjectId(id, speed), data.baseFeeSuggestion,
                                   add(data.baseFeeSuggestion, Gwei(k)), Gwei(k),
                                   data.confirmationTimeByPriorityFee)
    IN  [baseFeePerGas |-> data.baseFeeSuggestion,
         baseFeeTrend |-> data.baseFeeTrend,
         currentBaseFee |-> data.currentBaseFee,
         confirmationTimeByPriorityFee |-> data.confirmationTimeByPriorityFee,
         gasFeeParamsBySpeed |->
            (NORMAL :> tier(NORMAL, 1)) @@ (FAST :> tier(FAST, 2))
                @@ (URGENT :> tier(URGENT, 3))]

PriceData(average, avgWait, fast, fastWait, fastest, fastestWait, safeLow, safeLowWait) ==
    [average |-> average, avgWait |-> avgWait, fast |-> fast, fastWait |-> fastWait,
     fastest |-> fastest, fastestWait |-> fastestWait,
     safeLow |-> safeLow, safeLowWait |-> safeLowWait]

polygonGetGasEstimates(prices) ==
    PriceData(prices.average, Dec(5, 0 - 1), prices.fast, Dec(2, 0 - 1),
              prices.fastest, Dec(1, 0 - 1), Undefined, Undefined)

\* a mutation: the prices are rounded down
getPolygonGasPrices_RoundsDown(q) ==
    LET result == polygonGasStationGetGasPrices(q)
        floor(x) == IF x.e >= 0 THEN x ELSE Dec(x.m \div Pow10(0 - x.e), 0)
    IN  polygonGetGasEstimates(
            [average |-> floor(result.SafeGasPrice),
             fast |-> floor(result.ProposeGasPrice),
             fastest |-> floor(result.FastGasPrice)])

getPolygonGasPrices(q) ==
    LET result == polygonGasStationGetGasPrices(q)
    IN  polygonGetGasEstimates(
            [average |-> ceil(result.SafeGasPrice),
             fast |-> ceil(result.ProposeGasPrice),
             fastest |-> ceil(result.FastGasPrice)])

\* a mutation: the fast and the normal multipliers have changed places
getArbitrumGasPrices_Swapped(q) ==
    LET baseGasPriceGwei == weiToGwei(getGasPrice(q))
        fastGasPriceAdjusted == multiply(baseGasPriceGwei, Dec(5, 0 - 1))
        normalGasPriceAdjusted == multiply(baseGasPriceGwei, Dec(7, 0 - 1))
        safeLowGasPriceWithBuffer == multiply(baseGasPriceGwei, Dec(4, 0 - 1))
    IN  PriceData(normalGasPriceAdjusted, Dec(5, 0 - 1), fastGasPriceAdjusted,
                  Dec(2, 0 - 1), Undefined, Undefined,
                  safeLowGasPriceWithBuffer, Dec(1, 0))

getArbitrumGasPrices(q) ==
    LET baseGasPriceGwei == weiToGwei(getGasPrice(q))
        fastGasPriceAdjusted == multiply(baseGasPriceGwei, Dec(7, 0 - 1))
        normalGasPriceAdjusted == multiply(baseGasPriceGwei, Dec(5, 0 - 1))
        safeLowGasPriceWithBuffer == multiply(baseGasPriceGwei, Dec(4, 0 - 1))
    IN  PriceData(normalGasPriceAdjusted, Dec(5, 0 - 1), fastGasPriceAdjusted,
                  Dec(2, 0 - 1), Undefined, Undefined,
                  safeLowGasPriceWithBuffer, Dec(1, 0))

getOptimismGasPrices(q) ==
    LET gasPriceGwei == weiToGwei(getGasPrice(q))
    IN  PriceData(gasPriceGwei, Dec(5, 0 - 1), gasPriceGwei, Dec(2, 0 - 1),
                  Undefined, Undefined, gasPriceGwei, Dec(1, 0))

defaultGasPriceFormat(oid, wait, priceGwei) ==
    LegacyGasFeeParams(oid, gweiToWei(priceGwei), wait)

\* normal <- average, fast <- fast, urgent <- fastest (fast when the source
\* gives no fastest)
parseL2GasPrices(data, id) ==
    LET top == IF IsNumber(data.fastest) THEN data.fastest ELSE data.fast
        topWait == IF IsNumber(data.fastest) THEN data.fastestWait ELSE data.fastWait
    IN  (NORMAL :> defaultGasPriceFormat(ObjectId(id, NORMAL), data.avgWait, data.average))
        @@ (FAST :> defaultGasPriceFormat(ObjectId(id, FAST), data.fastWait, data.fast))
        @@ (URGENT :> defaultGasPriceFormat(ObjectId(id, URGENT), topWait, top))

\* ---------------------------------------------------------------- store
EmptyBlockParams == [defined |-> TRUE, baseFeePerGas |-> Undefined, trend |-> NoVal]
UndefinedBlockParams == [defined |-> FALSE, baseFeePerGas |-> Undefined, trend |-> NoVal]
EmptySelectedGasFee ==
    [estimatedTime |-> Undefined, gasFee |-> UndefinedFee,
     gasFeeParams |-> UndefinedParams, option |-> NoOption]

INITIAL_STATE ==
    [confirmationTimeByPriorityFee |-> EmptyObject,
     currentBlockParams |-> EmptyBlockParams,
     customGasFeeModifiedByUser |-> FALSE,
     defaultGasLimit |-> basic_tx,
     gasFeeParamsBySpeed |-> EmptyTable,
     gasFeesBySpeed |-> EmptyTable,
     gasLimit |-> NoVal,
     isSufficientGas |-> Null,
     l1GasFeeOptimism |-> Undefined,
     selectedGasFee |-> EmptySelectedGasFee,
     txNetwork |-> NoNetwork]

\* the reducer, one operator per action type
GAS_UPDATE_DEFAULT_GAS_LIMIT(state, payload) ==
    [state EXCEPT !.defaultGasLimit = payload]

\* a mutation: storing the limit puts the L1 data fee back to its initial value
GAS_UPDATE_GAS_LIMIT_ClearsL1Fee(state, payload) ==
    [state EXCEPT !.gasLimit = payload, !.l1GasFeeOptimism = Undefined]

GAS_UPDATE_GAS_LIMIT(state, payload) ==
    [state EXCEPT !.gasLimit = payload]

GAS_PRICES_SUCCESS(state, payload) ==
    [state EXCEPT !.gasFeeParamsBySpeed = payload.gasFeeParamsBySpeed]

\* a mutation: the poll result also puts the custom flag and the L1 data fee
\* back to their initial values
GAS_FEES_SUCCESS_ClearsUserInput(state, payload) ==
    [state EXCEPT
        !.confirmationTimeByPriorityFee = payload.confirmationTimeByPriorityFee,
        !.currentBlockParams = payload.currentBlockParams,
        !.customGasFeeModifiedByUser = FALSE,
        !.gasFeeParamsBySpeed = payload.gasFeeParamsBySpeed,
        !.gasFeesBySpeed = payload.gasFeesBySpeed,
        !.isSufficientGas = payload.isSufficientGas,
        !.l1GasFeeOptimism = Undefined,
        !.selectedGasFee = payload.selectedGasFee]

GAS_FEES_SUCCESS(state, payload) ==
    [state EXCEPT
        !.confirmationTimeByPriorityFee = payload.confirmationTimeByPriorityFee,
        !.currentBlockParams = payload.currentBlockParams,
        !.gasFeeParamsBySpeed = payload.gasFeeParamsBySpeed,
        !.gasFeesBySpeed = payload.gasFeesBySpeed,
        !.isSufficientGas = payload.isSufficientGas,
        !.selectedGasFee = payload.selectedGasFee]

GAS_PRICES_CUSTOM_UPDATE(state, payload) ==
    [state EXCEPT
        !.customGasFeeModifiedByUser = payload.customGasFeeModifiedByUser,
        !.gasFeeParamsBySpeed = payload.gasFeeParamsBySpeed,
        !.gasFeesBySpeed = payload.gasFeesBySpeed,
        !.selectedGasFee = payload.selectedGasFee]

GAS_UPDATE_TX_FEE(state, payload) ==
    [state EXCEPT
        !.gasFeesBySpeed = payload.gasFeesBySpeed,
        !.gasLimit = payload.gasLimit,
        !.isSufficientGas = payload.isSufficientGas,
        !.l1GasFeeOptimism = payload.l1GasFeeOptimism,
        !.selectedGasFee = payload.selectedGasFee]

\* a mutation: the reducer forgets the sufficiency of the new selection
GAS_UPDATE_GAS_PRICE_OPTION_KeepsSufficiency(state, payload) ==
    [state EXCEPT !.selectedGasFee = payload.selectedGasFee]

GAS_UPDATE_GAS_PRICE_OPTION(state, payload) ==
    [state EXCEPT
        !.isSufficientGas = payload.isSufficientGas,
        !.selectedGasFee = payload.selectedGasFee]

GAS_UPDATE_TRANSACTION_NETWORK(state, payload) ==
    [state EXCEPT !.txNetwork = payload]

\* a mutation: the reset spreads the defaults over the gas limits in use
GAS_PRICES_RESET_KeepsLimits(state) ==
    [INITIAL_STATE EXCEPT !.defaultGasLimit = state.defaultGasLimit,
                          !.gasLimit = state.gasLimit]

GAS_PRICES_RESET(state) == INITIAL_STATE

\* ------------------------------------------------------------- getGasPrices
\* The payload of GAS_FEES_SUCCESS that the tick `id` of the loop on
\* `network` dispatches when its fetch answers q; `cap` is the store state
\* the tick read before it suspended at the fetch.
getGasPricesL2(cap, wallet, network, q, id) ==
    LET adjustedGasFees ==
            CASE network = polygon -> getPolygonGasPrices(q)
              [] network = arbitrum -> getArbitrumGasPrices(q)
              [] OTHER -> getOptimismGasPrices(q)
        dataIsReady == network # optimism \/ cap.l1GasFeeOptimism # Undefined
        paramsBySpeed == parseL2GasPrices(adjustedGasFees, id)
        option == OrOption(cap.selectedGasFee.option, NORMAL)
        gasLimit == OrNumber(cap.gasLimit, cap.defaultGasLimit)
        updated ==
            IF dataIsReady
            THEN getUpdatedGasFeeParams(wallet, cap.currentBlockParams.baseFeePerGas,
                                        paramsBySpeed, gasLimit, option,
                                        cap.txNetwork, cap.l1GasFeeOptimism)
            ELSE [gasFeesBySpeed |-> cap.gasFeesBySpeed,
                  isSufficientGas |-> cap.isSufficientGas,
                  selectedGasFee |-> cap.selectedGasFee]
    IN  [confirmationTimeByPriorityFee |-> NoVal,
         currentBlockParams |-> UndefinedBlockParams,
         gasFeeParamsBySpeed |-> paramsBySpeed,
         gasFeesBySpeed |-> updated.gasFeesBySpeed,
         isSufficientGas |-> updated.isSufficientGas,
         selectedGasFee |-> updated.selectedGasFee]

getGasPricesEIP1559(cap, wallet, testing, network, q, id) ==
    LET parsed == parseRainbowMeteorologyData(rainbowMeteorologyGetData(q), id)
        baseFee == IF network = mainnet /\ testing
                   THEN Gwei(1000) ELSE parsed.baseFeePerGas
        custom ==
            IF cap.customGasFeeModifiedByUser
            THEN [ParamsOf(cap.gasFeeParamsBySpeed, CUSTOM) EXCEPT
                    !.oid = ObjectId(id, CUSTOM), !.baseFeePerGas = baseFee]
            ELSE parsed.gasFeeParamsBySpeed[URGENT]
        paramsBySpeed == parsed.gasFeeParamsBySpeed @@ (CUSTOM :> custom)
        option == OrOption(cap.selectedGasFee.option, NORMAL)
        gasLimit == OrNumber(cap.gasLimit, cap.defaultGasLimit)
        updated == getUpdatedGasFeeParams(wallet, parsed.currentBaseFee, paramsBySpeed,
                                          gasLimit, option, cap.txNetwork, Undefined)
    IN  [confirmationTimeByPriorityFee |-> parsed.confirmationTimeByPriorityFee,
         currentBlockParams |->
            [defined |-> TRUE, baseFeePerGas |-> parsed.currentBaseFee,
             trend |-> parsed.baseFeeTrend],
         gasFeeParamsBySpeed |-> paramsBySpeed,
         gasFeesBySpeed |-> updated.gasFeesBySpeed,
         isSufficientGas |-> updated.isSufficientGas,
         selectedGasFee |-> updated.selectedGasFee]

getGasPrices(cap, wallet, testing, network, q, id) ==
    IF isL2Network(network)
    THEN getGasPricesL2(cap, wallet, network, q, id)
    ELSE getGasPricesEIP1559(cap, wallet, testing, network, q, id)

\* a mutation: the switch has lost its cases
getGasPricePollingInterval_DefaultOnly(network) == 5000

getGasPricePollingInterval(network) ==
    CASE network = polygon -> 2000
      [] network = arbitrum -> 3000
      [] OTHER -> 5000

\* --------------------------------------------------------------- history
\* The operation that produced the state: op, its arguments (args), the tick
\* (id, gen, network, cancelled: stop() ran while it was in flight) and the
\* answer (data) of a poll, whether it dispatched (wrote), armed a timer
\* (armed), published a selection made by getSelectedGasFee (selected) for
\* the option req, and the option it sent to analytics (tracked). For stop
\* and start, wrote: the store was not in its initial state, cancelled: the
\* timer of gasPricesHandle was pending and has been cleared.
Event(op) ==
    [op |-> op, args |-> <<>>, id |-> 0, gen |-> 0, network |-> NoNetwork,
     data |-> 0, wrote |-> FALSE, armed |-> FALSE, cancelled |-> FALSE,
     selected |-> FALSE, req |-> NoOption, tracked |-> NoOption]

\* ------------------------------------------------------------------ Init
\* 0.0003 ETH covers some tiers of some quotes, 0.000861 MATIC is the fee of
\* 21000 gas at 41 gwei; no Arbitrum asset is held
Wallet ==
    (ETH_ADDRESS :> Dec(3, 0 - 4)) @@ (MATIC_POLYGON_ADDRESS :> Dec(861, 0 - 6))
        @@ (OPTIMISM_ETH_ADDRESS :> Dec(15, 0 - 5))
EmptyWallet == <<>>
Wallets == {Wallet}

Init ==
    /\ gas = INITIAL_STATE
    /\ assets \in Wallets
    /\ gasPricesHandle = NoHandle
    /\ timers = {}
    /\ inflight = {}
    /\ nextId = 1
    /\ gen = 0
    /\ active = FALSE
    /\ nOps = 0
    /\ last = Event("init")

\* ------------------------------------------------------- the polling loop
\* the exploration budget: a tick may begin, a UI operation may run
Work == (nextId - 1) + nOps
MayTick == nextId <= MaxIds /\ Work < MaxWork
MayOperate == nOps < MaxOps /\ Work < MaxWork

\* a watchGasPrices(network, pollingInterval) call suspended at its fetch, and
\* the timer that will make the next call
Tick(id, network, pollingInterval, g, cap) ==
    [id |-> id, network |-> network, pollingInterval |-> pollingInterval,
     gen |-> g, cap |-> cap, cancelled |-> FALSE]
Timer(id, network, pollingInterval, g) ==
    [id |-> id, network |-> network, pollingInterval |-> pollingInterval, gen |-> g]

\* clearTimeout(gasPricesHandle)
clearTimeout(ts, handle) == {t \in ts : t.id # handle}
Cancel(ticks) == {[t EXCEPT !.cancelled = TRUE] : t \in ticks}

gasPricesStopPolling ==
    /\ timers' = clearTimeout(timers, gasPricesHandle)
    /\ gas' = GAS_PRICES_RESET(gas)
    /\ inflight' = Cancel(inflight)
    /\ active' = FALSE
    /\ last' = [Event("stop") EXCEPT
                    !.wrote = (gas # INITIAL_STATE),
                    !.cancelled = (\E t \in timers : t.id = gasPricesHandle)]
    /\ UNCHANGED <<assets, gasPricesHandle, nextId, gen, nOps>>

\* a mutation: the first tick waits for the polling interval
gasPricesStartPolling_Delayed(network) ==
    /\ gen < MaxStarts
    /\ MayTick
    /\ timers' = clearTimeout(timers, gasPricesHandle)
                    \cup {Timer(nextId, network, getGasPricePollingInterval(network),
                                gen + 1)}
    /\ gasPricesHandle' = nextId
    /\ gas' = GAS_UPDATE_TRANSACTION_NETWORK(GAS_PRICES_RESET(gas), network)
    /\ inflight' = Cancel(inflight)
    /\ nextId' = nextId + 1
    /\ gen' = gen + 1
    /\ active' = TRUE
    /\ last' = [Event("start") EXCEPT
                    !.args = <<network>>, !.id = nextId, !.gen = gen + 1,
                    !.network = network, !.wrote = (gas # INITIAL_STATE),
                    !.cancelled = (\E t \in timers : t.id = gasPricesHandle)]
    /\ UNCHANGED <<assets, nOps>>

\* stop, record the network, and the first watchGasPrices call up to its fetch
gasPricesStartPolling(network) ==
    /\ gen < MaxStarts
    /\ MayTick
    /\ timers' = clearTimeout(timers, gasPricesHandle)
    /\ gas' = GAS_UPDATE_TRANSACTION_NETWORK(GAS_PRICES_RESET(gas), network)
    /\ inflight' = Cancel(inflight)
                        \cup {Tick(nextId, network, getGasPricePollingInterval(network),
                                   gen + 1, gas')}
    /\ nextId' = nextId + 1
    /\ gen' = gen + 1
    /\ active' = TRUE
    /\ last' = [Event("start") EXCEPT
                    !.args = <<network>>, !.id = nextId, !.gen = gen + 1,
                    !.network = network, !.wrote = (gas # INITIAL_STATE),
                    !.cancelled = (\E t \in timers : t.id = gasPricesHandle)]
    /\ UNCHANGED <<assets, gasPricesHandle, nOps>>

\* the timer's callback: the next watchGasPrices call up to its fetch
TimerFires(t) ==
    /\ t \in timers
    /\ MayTick
    /\ timers' = timers \ {t}
    /\ inflight' = inflight
                        \cup {Tick(nextId, t.network, t.pollingInterval, t.gen, gas)}
    /\ nextId' = nextId + 1
    /\ last' = [Event("fire") EXCEPT !.id = nextId, !.gen = t.gen,
                                     !.network = t.network]
    /\ UNCHANGED <<gas, assets, gasPricesHandle, gen, active, nOps>>

\* the finally block of watchGasPrices
setTimeout(t) ==
    /\ timers' = timers \cup {Timer(t.id, t.network, t.pollingInterval, t.gen)}
    /\ gasPricesHandle' = t.id

TickEvent(op, t) ==
    [Event(op) EXCEPT !.id = t.id, !.gen = t.gen, !.network = t.network,
                      !.cancelled = t.cancelled]

\* the fetch answers q: dispatch GAS_FEES_SUCCESS, resolve, re-arm. hardhat:
\* IS_TESTING === 'true' and web3Provider is a hardhat node
FetchSucceeds(t, q, hardhat) ==
    /\ t \in inflight
    /\ gas' = GAS_FEES_SUCCESS(gas,
                 getGasPrices(t.cap, assets, hardhat, t.network, q, t.id))
    /\ inflight' = inflight \ {t}
    /\ setTimeout(t)
    /\ last' = [TickEvent("poll", t) EXCEPT
                    !.data = q, !.wrote = TRUE, !.armed = TRUE,
                    !.selected = (t.network # optimism
                                  \/ t.cap.l1GasFeeOptimism # Undefined),
                    !.req = t.cap.selectedGasFee.option]
    /\ UNCHANGED <<assets, nextId, gen, active, nOps>>

\* a mutation: a failed fetch publishes an empty snapshot
FetchFails_PublishesNothingKnown(t) ==
    /\ t \in inflight
    /\ gas' = GAS_UPDATE_TRANSACTION_NETWORK(INITIAL_STATE, gas.txNetwork)
    /\ inflight' = inflight \ {t}
    /\ setTimeout(t)
    /\ last' = [TickEvent("pollFailed", t) EXCEPT !.armed = TRUE]
    /\ UNCHANGED <<assets, nextId, gen, active, nOps>>

\* the fetch throws: caught (line 558 or 565), nothing dispatched, re-arm
FetchFails(t) ==
    /\ t \in inflight
    /\ inflight' = inflight \ {t}
    /\ setTimeout(t)
    /\ last' = [TickEvent("pollFailed", t) EXCEPT !.armed = TRUE]
    /\ UNCHANGED <<gas, assets, nextId, gen, active, nOps>>

\* parseL2GasPrices yields nothing: the executor returns at line 460 without
\* settling the promise, so `await getGasPrices` never resumes
FetchYieldsNothing(t) ==
    /\ t \in inflight
    /\ isL2Network(t.network)
    /\ inflight' = inflight \ {t}
    /\ last' = TickEvent("pollNoData", t)
    /\ UNCHANGED <<gas, assets, gasPricesHandle, timers, nextId, gen,
                   active, nOps>>

\* ------------------------------------------------------------ UI operations
NoOverride == <<>>
OptionInputs ==
    {<<FAST, NoOverride>>, <<FAST, <<EmptyWallet>> >>, <<SLOW, NoOverride>>,
     <<NoOption, NoOverride>>}
DefaultGasLimitInputs == {30000}
CustomInputs == {[maxFeePerGas |-> Gwei(40), maxPriorityFeePerGas |-> Gwei(5)]}
L1Fee == Dec(1, 14)
TxFeeInputs ==
    {<<NoVal, NoOption, Undefined>>, <<50000, NoOption, Undefined>>,
     <<NoVal, FAST, Undefined>>, <<NoVal, NoOption, L1Fee>>}
SpeedInputs == {URGENT}

\* a mutation: the early return on the already selected option is missing
OptionDispatches_NoEarlyReturn(state, newGasPriceOption) ==
    ~isEmpty(state.gasFeeParamsBySpeed)

\* a mutation: the return on an empty fee params table (line 603) is gone
OptionDispatches_NoEmptyCheck(state, newGasPriceOption) ==
    state.selectedGasFee.option # newGasPriceOption

\* gasUpdateGasFeeOption passes both of its early returns (lines 598, 603)
OptionDispatches(state, newGasPriceOption) ==
    /\ state.selectedGasFee.option # newGasPriceOption
    /\ ~isEmpty(state.gasFeeParamsBySpeed)

gasUpdateGasFeeOption(newGasPriceOption, assetsOverride) ==
    LET gasPriceOption == OrOption(newGasPriceOption, NORMAL)
        wallet == IF assetsOverride = NoOverride THEN assets ELSE assetsOverride[1]
        dispatched == OptionDispatches(gas, newGasPriceOption)
    IN  /\ MayOperate
        /\ nOps' = nOps + 1
        /\ gas' = IF dispatched
                  THEN GAS_UPDATE_GAS_PRICE_OPTION(gas,
                          getSelectedGasFee(wallet, gas.gasFeeParamsBySpeed,
                                            gas.gasFeesBySpeed, gasPriceOption,
                                            gas.txNetwork))
                  ELSE gas
        /\ last' = [Event("option") EXCEPT
                        !.args = <<newGasPriceOption, assetsOverride>>,
                        !.wrote = dispatched, !.selected = dispatched,
                        !.req = newGasPriceOption,
                        !.tracked = IF dispatched THEN gasPriceOption ELSE NoOption]
        /\ UNCHANGED <<assets, gasPricesHandle, timers, inflight, nextId,
                       gen, active>>

\* a mutation: the recompute runs whether or not fee params are there
TxFee_AlwaysRecomputes(state, wallet, updatedGasLimit, overrideGasOption, l1GasFeeOptimism) ==
    LET option == OrOption(overrideGasOption,
                           OrOption(state.selectedGasFee.option, NORMAL))
        gasLimit == OrNumber(updatedGasLimit,
                             OrNumber(state.gasLimit, state.defaultGasLimit))
        updated == getUpdatedGasFeeParams(wallet,
                       state.currentBlockParams.baseFeePerGas,
                       state.gasFeeParamsBySpeed, gasLimit, option,
                       state.txNetwork, l1GasFeeOptimism)
    IN  GAS_UPDATE_TX_FEE(state,
           [gasFeesBySpeed |-> updated.gasFeesBySpeed,
            gasLimit |-> gasLimit,
            isSufficientGas |-> updated.isSufficientGas,
            l1GasFeeOptimism |-> l1GasFeeOptimism,
            selectedGasFee |-> updated.selectedGasFee])

\* a mutation: the recompute prefers the gas limit already stored
TxFee_PrefersStoredLimit(state, wallet, updatedGasLimit, overrideGasOption, l1GasFeeOptimism) ==
    IF isEmpty(state.gasFeeParamsBySpeed)
       \/ (state.txNetwork = optimism /\ l1GasFeeOptimism = Undefined)
    THEN IF updatedGasLimit # NoVal /\ updatedGasLimit # 0
         THEN GAS_UPDATE_GAS_LIMIT(state, updatedGasLimit)
         ELSE state
    ELSE LET option == OrOption(overrideGasOption,
                                OrOption(state.selectedGasFee.option, NORMAL))
             gasLimit == OrNumber(state.gasLimit,
                                  OrNumber(updatedGasLimit, state.defaultGasLimit))
             updated == getUpdatedGasFeeParams(wallet,
                            state.currentBlockParams.baseFeePerGas,
                            state.gasFeeParamsBySpeed, gasLimit, option,
                            state.txNetwork, l1GasFeeOptimism)
         IN  GAS_UPDATE_TX_FEE(state,
                [gasFeesBySpeed |-> updated.gasFeesBySpeed,
                 gasLimit |-> gasLimit,
                 isSufficientGas |-> updated.isSufficientGas,
                 l1GasFeeOptimism |-> l1GasFeeOptimism,
                 selectedGasFee |-> updated.selectedGasFee])

\* the store after gasUpdateTxFee(updatedGasLimit, overrideGasOption, l1GasFeeOptimism)
TxFee(state, wallet, updatedGasLimit, overrideGasOption, l1GasFeeOptimism) ==
    IF isEmpty(state.gasFeeParamsBySpeed)
       \/ (state.txNetwork = optimism /\ l1GasFeeOptimism = Undefined)
    THEN IF updatedGasLimit # NoVal /\ updatedGasLimit # 0
         THEN GAS_UPDATE_GAS_LIMIT(state, updatedGasLimit)
         ELSE state
    ELSE LET option == OrOption(overrideGasOption,
                                OrOption(state.selectedGasFee.option, NORMAL))
             gasLimit == OrNumber(updatedGasLimit,
                                  OrNumber(state.gasLimit, state.defaultGasLimit))
             updated == getUpdatedGasFeeParams(wallet,
                            state.currentBlockParams.baseFeePerGas,
                            state.gasFeeParamsBySpeed, gasLimit, option,
                            state.txNetwork, l1GasFeeOptimism)
         IN  GAS_UPDATE_TX_FEE(state,
                [gasFeesBySpeed |-> updated.gasFeesBySpeed,
                 gasLimit |-> gasLimit,
                 isSufficientGas |-> updated.isSufficientGas,
                 l1GasFeeOptimism |-> l1GasFeeOptimism,
                 selectedGasFee |-> updated.selectedGasFee])

\* whether gasUpdateTxFee takes its recompute branch
TxFeeRecomputes(state, l1GasFeeOptimism) ==
    ~isEmpty(state.gasFeeParamsBySpeed)
    /\ ~(state.txNetwork = optimism /\ l1GasFeeOptimism = Undefined)

gasUpdateTxFee(updatedGasLimit, overrideGasOption, l1GasFeeOptimism) ==
    /\ MayOperate
    /\ nOps' = nOps + 1
    /\ gas' = TxFee(gas, assets, updatedGasLimit, overrideGasOption, l1GasFeeOptimism)
    /\ last' = [Event("txFee") EXCEPT
                    !.args = <<updatedGasLimit, overrideGasOption, l1GasFeeOptimism>>,
                    !.wrote = TxFeeRecomputes(gas, l1GasFeeOptimism),
                    !.selected = TxFeeRecomputes(gas, l1GasFeeOptimism),
                    !.req = OrOption(overrideGasOption, gas.selectedGasFee.option)]
    /\ UNCHANGED <<assets, gasPricesHandle, timers, inflight, nextId,
                   gen, active>>

gasUpdateDefaultGasLimit(defaultGasLimit) ==
    LET stored == GAS_UPDATE_DEFAULT_GAS_LIMIT(gas, defaultGasLimit)
    IN  /\ MayOperate
        /\ nOps' = nOps + 1
        /\ gas' = TxFee(stored, assets, defaultGasLimit, NoOption, Undefined)
        /\ last' = [Event("defaultGasLimit") EXCEPT
                        !.args = <<defaultGasLimit>>,
                        !.wrote = TRUE,
                        !.selected = TxFeeRecomputes(stored, Undefined),
                        !.req = gas.selectedGasFee.option]
        /\ UNCHANGED <<assets, gasPricesHandle, timers, inflight, nextId,
                       gen, active>>

\* the object id of the custom tier made by the n-th UI operation
EditObjectId(n) == 0 - n - 2

\* currentBlockParams.baseFeePerGas.amount throws on a store without a
\* current base fee (line 319): nothing is dispatched then
CustomGasFee(state, wallet, gasParams, oid) ==
    LET gasLimit == OrNumber(state.gasLimit, state.defaultGasLimit)
        nativeTokenPriceUnit ==
            IF state.txNetwork # polygon THEN getEthPriceUnit ELSE getMaticPriceUnit
        customGasFees == parseGasFees(
            GasFeeParams(oid, gasParams.maxFeePerGas, gasParams.maxPriorityFeePerGas,
                         Undefined, Undefined),
            state.currentBlockParams.baseFeePerGas, gasLimit, nativeTokenPriceUnit)
        newGasFeesBySpeed ==
            (CUSTOM :> customGasFees) @@ state.gasFeesBySpeed
        newGasFeeParamsBySpeed ==
            (CUSTOM :> defaultGasParamsFormat(oid,
                            state.currentBlockParams.baseFeePerGas,
                            gasParams.maxFeePerGas, gasParams.maxPriorityFeePerGas,
                            state.confirmationTimeByPriorityFee))
                @@ state.gasFeeParamsBySpeed
        newSelectedGasFee == getSelectedGasFee(wallet, newGasFeeParamsBySpeed,
                                 newGasFeesBySpeed, CUSTOM, state.txNetwork)
    IN  IF ~IsNumber(state.currentBlockParams.baseFeePerGas) THEN state
        ELSE GAS_PRICES_CUSTOM_UPDATE(state,
                [customGasFeeModifiedByUser |-> TRUE,
                 gasFeeParamsBySpeed |-> newGasFeeParamsBySpeed,
                 gasFeesBySpeed |-> newGasFeesBySpeed,
                 selectedGasFee |-> newSelectedGasFee.selectedGasFee])

gasUpdateToCustomGasFee(gasParams) ==
    /\ MayOperate
    /\ nOps' = nOps + 1
    /\ gas' = CustomGasFee(gas, assets, gasParams, EditObjectId(nOps))
    /\ last' = [Event("custom") EXCEPT
                    !.args = <<gasParams>>,
                    !.wrote = IsNumber(gas.currentBlockParams.baseFeePerGas),
                    !.selected = IsNumber(gas.currentBlockParams.baseFeePerGas),
                    !.req = CUSTOM]
    /\ UNCHANGED <<assets, gasPricesHandle, timers, inflight, nextId,
                   gen, active>>

\* newGasFeeParams[speed].maxPriorityFeePerGas = ... writes into the object
\* that the store's table holds: every holder of that object sees the write
WriteThrough(state, oid, prio) ==
    LET w(p) == IF p.oid = oid THEN [p EXCEPT !.maxPriorityFeePerGas = prio] ELSE p
    IN  [state EXCEPT
            !.gasFeeParamsBySpeed = [k \in DOMAIN @ |-> w(@[k])],
            !.selectedGasFee.gasFeeParams = w(@)]

\* throws when the table has no such tier: nothing is written then
updateGasFeeForSpeed(speed, newMaxPriorityFeePerGas) ==
    LET has == speed \in DOMAIN gas.gasFeeParamsBySpeed
        oid == ParamsOf(gas.gasFeeParamsBySpeed, speed).oid
        written == WriteThrough(gas, oid, newMaxPriorityFeePerGas)
    IN  /\ MayOperate
        /\ nOps' = nOps + 1
        /\ gas' = IF has
                  THEN GAS_PRICES_SUCCESS(written,
                          [gasFeeParamsBySpeed |-> written.gasFeeParamsBySpeed])
                  ELSE gas
        /\ inflight' = IF has
                       THEN {[t EXCEPT !.cap = WriteThrough(@, oid, newMaxPriorityFeePerGas)]
                                : t \in inflight}
                       ELSE inflight
        /\ last' = [Event("speed") EXCEPT !.wrote = has, !.req = speed]
        /\ UNCHANGED <<assets, gasPricesHandle, timers, nextId, gen, active>>

\* ------------------------------------------------------------------- Next
Next ==
    \/ \E network \in PolledNetworks : gasPricesStartPolling(network)
    \/ gasPricesStopPolling
    \/ \E t \in timers : TimerFires(t)
    \/ \E t \in inflight, q \in Quotes, hardhat \in BOOLEAN :
            FetchSucceeds(t, q, hardhat)
    \/ \E t \in inflight : FetchFails(t)
    \/ \E t \in inflight : FetchYieldsNothing(t)
    \/ \E i \in OptionInputs : gasUpdateGasFeeOption(i[1], i[2])
    \/ \E i \in TxFeeInputs : gasUpdateTxFee(i[1], i[2], i[3])
    \/ \E l \in DefaultGasLimitInputs : gasUpdateDefaultGasLimit(l)
    \/ \E p \in CustomInputs : gasUpdateToCustomGasFee(p)
    \/ \E s \in SpeedInputs : updateGasFeeForSpeed(s, Gwei(4))

Spec == Init /\ [][Next]_vars

\* ------------------------------------------------------------ properties
PollOps == {"poll", "pollFailed", "pollNoData"}

\* C1: a tick whose loop was stopped by stop() while its fetch was in flight
\* writes nothing to the store when it completes, and arms no timer (stated
\* for the first loop, so that the stop is a gasPricesStopPolling call).
C1_StoppedTickIsSilent ==
    [][(last'.op \in PollOps /\ last'.cancelled /\ gen = 1)
        => (gas' = gas /\ timers' = timers)]_vars

\* C2: after stop() with no tick in flight no tick is left pending on a
\* timer, so none runs and none writes until the next start().
C2_StopCancelsPendingTick ==
    (last.op = "stop" /\ inflight = {}) => timers = {}

\* C3: only the loop of the latest start() runs: every tick that begins,
\* every poll result written and every timer armed belongs to it.
C3_OnlyLatestLoopRuns ==
    (last.op = "fire" \/ (last.op \in PollOps /\ (last.wrote \/ last.armed)))
        => last.gen = gen

\* C4: at most one tick is in flight.
C4_OneTickInFlight == Cardinality(inflight) <= 1

\* C5: while polling is started and not stopped, a tick that finishes leaves
\* a timer armed for the next tick of its loop, whatever the fetch gave.
C5_TickRearmsTimer ==
    (active /\ last.op \in PollOps /\ last.gen = gen)
        => \E t \in timers : t.gen = gen

\* a poll of the first loop, which no stop() or second start() has touched
FirstLoopPoll == last'.op = "poll" /\ gen = 1 /\ active /\ ~last'.cancelled

\* C6: the store a tick publishes is the one getGasPrices computes from the
\* store as it is when the tick publishes (stated for a single loop that
\* was never stopped, where only UI operations run beside the tick).
C6_PollUsesLatestStore ==
    [][FirstLoopPoll
        => \E hardhat \in BOOLEAN :
              gas' = GAS_FEES_SUCCESS(gas,
                        getGasPrices(gas, assets, hardhat, last'.network,
                                     last'.data, last'.id))]_vars

\* C7: a poll of an EIP-1559 network applied to a store whose custom tier was
\* edited by the user changes nothing of that tier but baseFeePerGas, and
\* leaves gasLimit alone (stated for a single loop that was never stopped).
C7_PollKeepsCustomTier ==
    [][(FirstLoopPoll /\ ~isL2Network(last'.network)
            /\ gas.customGasFeeModifiedByUser
            /\ CUSTOM \in DOMAIN gas.gasFeeParamsBySpeed)
        => LET old == gas.gasFeeParamsBySpeed[CUSTOM]
               new == ParamsOf(gas'.gasFeeParamsBySpeed, CUSTOM)
           IN  /\ [new EXCEPT !.baseFeePerGas = old.baseFeePerGas, !.oid = old.oid] = old
               /\ gas'.gasLimit = gas.gasLimit]_vars

\* C8: an Optimism poll applied while the store's l1GasFeeOptimism is null
\* leaves selectedGasFee and isSufficientGas as they were before the write
\* (stated for a single loop that was never stopped).
C8_GatedPollKeepsSelection ==
    [][(FirstLoopPoll /\ last'.network = optimism
            /\ gas.l1GasFeeOptimism = Undefined)
        => (gas'.selectedGasFee = gas.selectedGasFee
            /\ gas'.isSufficientGas = gas.isSufficientGas)]_vars

\* C9: the selected option is a key of gasFeeParamsBySpeed.
C9_SelectedOptionIsKey ==
    gas.selectedGasFee.option # NoOption
        => gas.selectedGasFee.option \in DOMAIN gas.gasFeeParamsBySpeed

\* C10: when the option to select is no key of gasFeeParamsBySpeed, the
\* published selection is the normal tier, with its params and fees.
C10_AbsentOptionFallsBack ==
    (last.selected /\ last.req \notin DOMAIN gas.gasFeeParamsBySpeed)
        => /\ gas.selectedGasFee.option = NORMAL
           /\ gas.selectedGasFee.gasFeeParams = ParamsOf(gas.gasFeeParamsBySpeed, NORMAL)
           /\ gas.selectedGasFee.gasFee = FeeOf(gas.gasFeesBySpeed, NORMAL)

\* the wallet gasUpdateGasFeeOption selects against: assetsOverride || assets
OptionWallet(event) ==
    IF event.args[2] = NoOverride THEN assets ELSE event.args[2][1]

\* C11: gasUpdateGasFeeOption with the option that is already selected
\* dispatches nothing and tracks no analytics event: the store is unchanged.
C11_SameOptionIsNoOp ==
    [][(last'.op = "option" /\ last'.args[1] = gas.selectedGasFee.option)
        => (gas' = gas /\ ~last'.wrote /\ last'.tracked = NoOption)]_vars

\* fast was selected and gasUpdateGasFeeOption(fast) has run
C11_Witness ==
    /\ last.op = "option" /\ last.args[1] = FAST /\ ~last.wrote
    /\ gas.selectedGasFee.option = FAST

\* what gasUpdateGasFeeOption(option) publishes: the selection of `option`
\* with its tier's params and fee, the sufficiency of the wallet for that
\* fee, one analytics event with the option, and nothing else
OptionIsPublished(option) ==
    LET fee == FeeOf(gas.gasFeesBySpeed, option)
    IN  /\ gas'.selectedGasFee.option = option
        /\ gas'.selectedGasFee.gasFee = fee
        /\ gas'.selectedGasFee.gasFeeParams = ParamsOf(gas.gasFeeParamsBySpeed, option)
        /\ gas'.isSufficientGas =
                Bool(checkIsSufficientGas(OptionWallet(last'), fee, gas.txNetwork))
        /\ [gas' EXCEPT !.selectedGasFee = gas.selectedGasFee,
                        !.isSufficientGas = gas.isSufficientGas] = gas
        /\ last'.tracked = option

\* C12 (as stated): gasUpdateGasFeeOption with an option other than the
\* selected one publishes the selection of that option with the recomputed
\* sufficiency and tracks one analytics event; it is a no-op only when the
\* option is already selected.
C12_OtherOptionIsPublished ==
    [][(last'.op = "option" /\ last'.args[1] # NoOption
            /\ last'.args[1] # gas.selectedGasFee.option)
        => OptionIsPublished(last'.args[1])]_vars

\* C12 (amended): the same, provided gasFeeParamsBySpeed is not empty; with an
\* empty table the call is a no-op as well.
C12_OtherOptionIsPublishedWithParams ==
    [][(last'.op = "option" /\ last'.args[1] # NoOption
            /\ last'.args[1] # gas.selectedGasFee.option)
        => IF isEmpty(gas.gasFeeParamsBySpeed)
           THEN gas' = gas /\ last'.tracked = NoOption
           ELSE OptionIsPublished(last'.args[1])]_vars

\* fast has been selected over another selection and tracked
C12_Witness ==
    /\ last.op = "option" /\ last.args[1] = FAST /\ last.wrote
    /\ last.tracked = FAST /\ gas.selectedGasFee.option = FAST
    /\ FAST \in DOMAIN gas.gasFeeParamsBySpeed

\* C13: a tick whose fetch or normalisation fails, or yields nothing, leaves
\* every field of the store as it was.
C13_FailedTickKeepsSnapshot ==
    [][last'.op \in {"pollFailed", "pollNoData"} => gas' = gas]_vars

\* a tick has failed while a snapshot with fee data was published
C13_Witness ==
    /\ last.op = "pollFailed"
    /\ ~isEmpty(gas.gasFeeParamsBySpeed)
    /\ gas.selectedGasFee.option # NoOption

\* the ids of the ticks in flight
InFlightIds(ticks) == {t.id : t \in ticks}

\* C14: immediately after gasPricesStopPolling every field of the store has
\* its initial value, whatever the state before; the call clears the timer of
\* gasPricesHandle if it is pending and does nothing else.
C14_StopResetsSnapshot ==
    [][last'.op = "stop"
        => /\ gas' = INITIAL_STATE
           /\ gas'.gasFeeParamsBySpeed = EmptyTable /\ gas'.gasFeesBySpeed = EmptyTable
           /\ gas'.selectedGasFee.option = NoOption
           /\ gas'.gasLimit = NoVal /\ gas'.isSufficientGas = Null
           /\ gas'.txNetwork = NoNetwork /\ ~gas'.customGasFeeModifiedByUser
           /\ gas'.l1GasFeeOptimism = Undefined /\ gas'.defaultGasLimit = 21000
           /\ timers' = {t \in timers : t.id # gasPricesHandle}
           /\ InFlightIds(inflight') = InFlightIds(inflight)
           /\ gasPricesHandle' = gasPricesHandle /\ assets' = assets]_vars

\* gasPricesStopPolling has run on a store with a snapshot and no timer pending
C14_Witness ==
    last.op = "stop" /\ last.wrote /\ ~last.cancelled /\ nOps > 0

\* C15: gasPricesStartPolling(network) clears the pending timer, resets the
\* store, records txNetwork = network and begins the first tick at once: that
\* tick reads a store equal to the initial state except for txNetwork, and
\* the new loop has no timer pending.
C15_StartResetsAndTicksAtOnce ==
    [][last'.op = "start"
        => /\ gas' = [INITIAL_STATE EXCEPT !.txNetwork = last'.args[1]]
           /\ timers' = {t \in timers : t.id # gasPricesHandle}
           /\ \E t \in inflight' :
                /\ t.id \notin InFlightIds(inflight)
                /\ t.network = last'.args[1] /\ t.gen = gen'
                /\ t.cap = [INITIAL_STATE EXCEPT !.txNetwork = last'.args[1]]
           /\ \A t \in timers' : t.gen # gen']_vars

\* gasPricesStartPolling has run on a store with a snapshot and a timer pending
C15_Witness ==
    /\ last.op = "start" /\ last.wrote /\ last.cancelled
    /\ \E t \in inflight : t.gen = gen /\ t.id = last.id

\* the polling interval of the loop that x (a tick or a timer) belongs to is
\* the one of its network
IntervalOfNetwork(x) ==
    /\ x.network = polygon => x.pollingInterval = 2000
    /\ x.network = arbitrum => x.pollingInterval = 3000
    /\ x.network \in {mainnet, optimism} => x.pollingInterval = 5000

\* x and y, of the same loop, have the same network and polling interval
SameLoopSameInterval(x, y) ==
    x.gen = y.gen => (x.pollingInterval = y.pollingInterval /\ x.network = y.network)

\* C16: every timer is armed with 2000 for Polygon, 3000 for Arbitrum and
\* 5000 for the other networks, the network being the one given to
\* gasPricesStartPolling: a loop keeps its network and interval from tick to
\* timer and from timer to tick.
C16_PollingIntervals ==
    [][/\ \A x \in timers' : IntervalOfNetwork(x)
       /\ \A x \in inflight' : IntervalOfNetwork(x)
       /\ last'.op = "start" =>
             \E x \in inflight' : x.gen = gen' /\ x.network = last'.args[1]
       /\ \A x \in timers', y \in inflight : SameLoopSameInterval(x, y)
       /\ \A x \in inflight', y \in timers : SameLoopSameInterval(x, y)]_vars

\* the second tick of a loop on Arbitrum has armed its timer
C16_Witness ==
    /\ last.op \in PollOps /\ last.network = arbitrum /\ last.id > last.gen
    /\ \E x \in timers : x.id = last.id /\ x.pollingInterval = 3000

\* an amount of the native asset, in wei
InWei(x) == Dec(x.m, x.e + 18)

\* C17: for every tier of the published fees, the sufficiency that
\* getSelectedGasFee computes for that tier is true exactly when the balance
\* of the native asset, in wei, is at least the tier's fee in wei: its maxFee
\* when it has one, its estimatedFee otherwise.
C17_SufficientIffBalanceCoversFee ==
    \A option \in DOMAIN gas.gasFeesBySpeed :
        LET fee == gas.gasFeesBySpeed[option]
            feeWei == IF IsNumber(fee.maxFee.amount) THEN fee.maxFee.amount
                      ELSE fee.estimatedFee.amount
            balance == OrZero(getNetworkNativeAsset(assets, gas.txNetwork))
            selection == getSelectedGasFee(assets, gas.gasFeeParamsBySpeed,
                                           gas.gasFeesBySpeed, option, gas.txNetwork)
        IN  /\ IsNumber(feeWei)
            /\ selection.isSufficientGas
                    = Bool(greaterThanOrEqualTo(InWei(balance), feeWei))

\* the selected tier of a Polygon snapshot costs exactly the balance held
\* (21000 gas at 41 gwei against 0.000861 MATIC), and is found sufficient
C17_Witness ==
    /\ gas.txNetwork = polygon
    /\ gas.selectedGasFee.option = NORMAL
    /\ gas.selectedGasFee.gasFee.estimatedFee.amount = Dec(861, 12)
    /\ assets[MATIC_POLYGON_ADDRESS] = Dec(861, 0 - 6)
    /\ gas.isSufficientGas = Bool(TRUE)
    /\ last.op = "poll"

\* the address of the asset that pays for gas on `network`
NativeAssetAddress(network) ==
    IF network = polygon THEN MATIC_POLYGON_ADDRESS
    ELSE IF network = arbitrum THEN ARBITRUM_ETH_ADDRESS
    ELSE IF network = optimism THEN OPTIMISM_ETH_ADDRESS
    ELSE ETH_ADDRESS

\* C18: for every tier of the published fees and every network, the
\* sufficiency getSelectedGasFee computes depends on the wallet only through
\* the balance of the network's own native asset: it is the same with every
\* other asset removed, it compares that asset's balance with the fee, and
\* when the asset is not held it is false for any positive fee.
C18_BalanceIsOfNativeAsset ==
    \A option \in DOMAIN gas.gasFeesBySpeed, network \in Networks \cup {NoNetwork} :
        LET address == NativeAssetAddress(network)
            held == address \in DOMAIN assets
            own == IF held THEN (address :> assets[address]) ELSE EmptyWallet
            fee == gas.gasFeesBySpeed[option]
            feeWei == IF IsNumber(fee.maxFee.amount) THEN fee.maxFee.amount
                      ELSE fee.estimatedFee.amount
            sufficient(wallet) ==
                getSelectedGasFee(wallet, gas.gasFeeParamsBySpeed, gas.gasFeesBySpeed,
                                  option, network).isSufficientGas
        IN  /\ sufficient(assets) = sufficient(own)
            /\ held => sufficient(assets)
                        = Bool(greaterThanOrEqualTo(InWei(assets[address]), feeWei))
            /\ (~held /\ feeWei.m > 0) => sufficient(assets) = Bool(FALSE)

\* an Arbitrum snapshot: the wallet holds no Arbitrum ETH but enough mainnet
\* ETH for the selected fee, and the selection is found insufficient
C18_Witness ==
    /\ last.op = "poll" /\ last.gen = gen
    /\ gas.txNetwork = arbitrum
    /\ ARBITRUM_ETH_ADDRESS \notin DOMAIN assets
    /\ gas.selectedGasFee.gasFee.estimatedFee.amount.m > 0
    /\ greaterThanOrEqualTo(InWei(assets[ETH_ADDRESS]),
                            gas.selectedGasFee.gasFee.estimatedFee.amount)
    /\ gas.isSufficientGas = Bool(FALSE)

\* C19: gasUpdateTxFee(newGasLimit) on a store whose gasFeeParamsBySpeed is
\* empty sets gasLimit to newGasLimit and changes no other field (and nothing
\* at all when no limit is given).
C19_TxFeeWithoutParamsStoresLimit ==
    [][(last'.op = "txFee" /\ isEmpty(gas.gasFeeParamsBySpeed))
        => gas' = IF last'.args[1] > 0
                  THEN [gas EXCEPT !.gasLimit = last'.args[1]]
                  ELSE gas]_vars

\* polling has started, no fee data has arrived, gasUpdateTxFee(50000) has run
C19_Witness ==
    /\ last.op = "txFee" /\ last.args[1] = 50000
    /\ isEmpty(gas.gasFeeParamsBySpeed)
    /\ gas.txNetwork # NoNetwork
    /\ gas.gasLimit = 50000 /\ gas.isSufficientGas = Null

\* a gas-limit change: gasUpdateDefaultGasLimit(L) or gasUpdateTxFee(L, ...)
LimitChange == last'.op \in {"txFee", "defaultGasLimit"} /\ last'.args[1] > 0

\* fee params are available: the table is not empty and, on Optimism, the L1
\* data fee has been supplied
FeeParamsAvailable ==
    /\ ~isEmpty(gas.gasFeeParamsBySpeed)
    /\ gas.txNetwork = optimism => gas.l1GasFeeOptimism # Undefined

\* the store after the step holds the limit L and the fees, selection and
\* sufficiency computed from the fee params of before at gas limit L, for the
\* override option if one is given and the selected option otherwise
RecomputedAt(L) ==
    LET override == IF last'.op = "txFee" THEN last'.args[2] ELSE NoOption
        given == IF last'.op = "txFee" THEN last'.args[3] ELSE Undefined
        option == OrOption(override, OrOption(gas.selectedGasFee.option, NORMAL))
    IN  /\ gas'.gasLimit = L
        /\ gas'.selectedGasFee.option = option
        /\ \E l1 \in {given, gas.l1GasFeeOptimism} :
              LET updated == getUpdatedGasFeeParams(assets,
                                 gas.currentBlockParams.baseFeePerGas,
                                 gas.gasFeeParamsBySpeed, L, option,
                                 gas.txNetwork, l1)
              IN  /\ gas'.gasFeesBySpeed = updated.gasFeesBySpeed
                  /\ gas'.selectedGasFee = updated.selectedGasFee
                  /\ gas'.isSufficientGas = updated.isSufficientGas

\* C20: a gas-limit change to L made while fee params are available stores
\* the limit and recomputes: afterwards gasFeesBySpeed, selectedGasFee and
\* isSufficientGas are the values computed from the current fee params at
\* gas limit L, the selected option being kept unless an override is given.
C20_LimitChangeRecomputes ==
    [][(LimitChange /\ FeeParamsAvailable) => RecomputedAt(last'.args[1])]_vars

\* the gas limit in use: gasLimit || defaultGasLimit
LimitInUse(state) == OrNumber(state.gasLimit, state.defaultGasLimit)

\* the store after the step holds the custom tier built from the user's
\* maxFeePerGas and maxPriorityFeePerGas, selected, beside the other tiers,
\* the gas limits and the network of before
CustomFeeIsApplied(gasParams) ==
    LET limit == Dec(LimitInUse(gas), 0)
        others == DOMAIN gas.gasFeeParamsBySpeed \ {CUSTOM}
    IN  /\ gas'.customGasFeeModifiedByUser
        /\ CUSTOM \in DOMAIN gas'.gasFeeParamsBySpeed
        /\ CUSTOM \in DOMAIN gas'.gasFeesBySpeed
        /\ gas'.gasFeeParamsBySpeed[CUSTOM].maxFeePerGas = gasParams.maxFeePerGas
        /\ gas'.gasFeeParamsBySpeed[CUSTOM].maxPriorityFeePerGas
                = gasParams.maxPriorityFeePerGas
        /\ gas'.gasFeesBySpeed[CUSTOM].maxFee.amount
                = multiply(gasParams.maxFeePerGas, limit)
        /\ gas'.gasFeesBySpeed[CUSTOM].estimatedFee.amount
                = multiply(add(OrZero(gas.currentBlockParams.baseFeePerGas),
                               gasParams.maxPriorityFeePerGas), limit)
        /\ gas'.selectedGasFee.option = CUSTOM
        /\ gas'.selectedGasFee.gasFeeParams = gas'.gasFeeParamsBySpeed[CUSTOM]
        /\ gas'.selectedGasFee.gasFee = gas'.gasFeesBySpeed[CUSTOM]
        /\ DOMAIN gas'.gasFeeParamsBySpeed = others \cup {CUSTOM}
        /\ \A speed \in others :
                /\ gas'.gasFeeParamsBySpeed[speed] = gas.gasFeeParamsBySpeed[speed]
                /\ FeeOf(gas'.gasFeesBySpeed, speed) = FeeOf(gas.gasFeesBySpeed, speed)
        /\ gas'.gasLimit = gas.gasLimit /\ gas'.defaultGasLimit = gas.defaultGasLimit
        /\ gas'.txNetwork = gas.txNetwork

\* C21: gasUpdateToCustomGasFee(userParams) sets customGasFeeModifiedByUser,
\* replaces the custom tier of params and fees by values built from the
\* user's maxFeePerGas and maxPriorityFeePerGas and selects custom; the other
\* tiers, gasLimit and txNetwork are unchanged.
C21_CustomFeeIsApplied ==
    [][last'.op = "custom" => CustomFeeIsApplied(last'.args[1])]_vars

\* the same for the calls made on a store that holds a current base fee
C21_CustomFeeIsAppliedOnBaseFee ==
    [][(last'.op = "custom" /\ IsNumber(gas.currentBlockParams.baseFeePerGas))
        => CustomFeeIsApplied(last'.args[1])]_vars

\* the amounts of the cost estimate of `state`'s fee params at its gas limit,
\* for the L1 data fee `l1`
DerivedFees(state, l1) ==
    getUpdatedGasFeeParams(Wallet, state.currentBlockParams.baseFeePerGas,
                           state.gasFeeParamsBySpeed, LimitInUse(state), NORMAL,
                           state.txNetwork, l1).gasFeesBySpeed

SameAmounts(fees, derived) ==
    /\ DOMAIN fees = DOMAIN derived
    /\ \A speed \in DOMAIN fees :
        /\ fees[speed].estimatedFee.amount = derived[speed].estimatedFee.amount
        /\ fees[speed].maxFee.amount = derived[speed].maxFee.amount

FeesAreDerived(state) ==
    \E l1 \in {Undefined, state.l1GasFeeOptimism} :
        SameAmounts(state.gasFeesBySpeed, DerivedFees(state, l1))

\* C22: after any operation gasFeesBySpeed is the cost estimate derived from
\* the current gasFeeParamsBySpeed at the current gas limit (gasLimit, or
\* defaultGasLimit when unset): no operation leaves fees computed from older
\* params or an older limit.
C22_FeesFollowParamsAndLimit == FeesAreDerived(gas)

\* C23: from the start of polling until the first tick that publishes fee
\* data (while gasFeeParamsBySpeed is still empty), isSufficientGas stays null,
\* whatever failed ticks and UI operations happen in between.
C23_NoVerdictBeforeFeeData ==
    isEmpty(gas.gasFeeParamsBySpeed) => gas.isSufficientGas = Null

\* the first loop's tick has failed and an option change was asked for
C23_Witness ==
    /\ gen = 1 /\ active /\ timers # {} /\ inflight = {}
    /\ last.op = "option" /\ last.req = FAST
    /\ isEmpty(gas.gasFeeParamsBySpeed)
    /\ gas.isSufficientGas = Null

\* `out` is the least whole number that is not below `x`
IsRoundedUp(out, x) ==
    /\ out.e >= 0
    /\ greaterThanOrEqualTo(out, x)
    /\ ~greaterThanOrEqualTo(out, add(x, Dec(1, 0)))

\* C24: the Polygon adapter maps SafeGasPrice, ProposeGasPrice and
\* FastGasPrice to average, fast and fastest, each rounded up to the next whole
\* gwei (a whole price is unchanged): 30.2, 35.8, 40.1 give 31, 36, 41. Stated
\* of every Polygon poll result that reaches the store.
C24_PolygonPricesRoundedUp ==
    (last.op = "poll" /\ last.network = polygon) =>
        LET result == polygonGasStationGetGasPrices(last.data)
            prices == getPolygonGasPrices(last.data)
        IN  /\ IsRoundedUp(prices.average, result.SafeGasPrice)
            /\ IsRoundedUp(prices.fast, result.ProposeGasPrice)
            /\ IsRoundedUp(prices.fastest, result.FastGasPrice)
            /\ result.SafeGasPrice.e >= 0 => prices.average = result.SafeGasPrice
            /\ (result = [SafeGasPrice |-> Dec(302, 0 - 1),
                          ProposeGasPrice |-> Dec(358, 0 - 1),
                          FastGasPrice |-> Dec(401, 0 - 1)])
                 => /\ prices.average = Dec(31, 0)
                    /\ prices.fast = Dec(36, 0)
                    /\ prices.fastest = Dec(41, 0)
            /\ gas.gasFeeParamsBySpeed[NORMAL].gasPrice = gweiToWei(prices.average)
            /\ gas.gasFeeParamsBySpeed[FAST].gasPrice = gweiToWei(prices.fast)
            /\ gas.gasFeeParamsBySpeed[URGENT].gasPrice = gweiToWei(prices.fastest)

\* a Polygon poll has published the station's 30.2, 35.8, 40.1 as 31, 36, 41
C24_Witness ==
    /\ last.op = "poll" /\ last.network = polygon
    /\ polygonGasStationGetGasPrices(last.data).SafeGasPrice = Dec(302, 0 - 1)
    /\ gas.gasFeeParamsBySpeed[NORMAL].gasPrice = Gwei(31)
    /\ gas.gasFeeParamsBySpeed[FAST].gasPrice = Gwei(36)
    /\ gas.gasFeeParamsBySpeed[URGENT].gasPrice = Gwei(41)

\* x = (tenths / 10) * g
IsTenthsOf(x, tenths, g) == multiply(x, Dec(10, 0)) = multiply(g, Dec(tenths, 0))

VerdictMatchesSelection(state, wallet) ==
    state.isSufficientGas
        = Bool(checkIsSufficientGas(wallet, state.selectedGasFee.gasFee, state.txNetwork))

\* C27: after any operation, isSufficientGas (when not null) is the result of
\* the sufficiency check of the published selectedGasFee against the wallet's
\* native balance; in particular after gasUpdateToCustomGasFee. The wallet is
\* the account's asset list, or the empty override list an option change may
\* have been given. Stated of the first polling loop while it runs, where no
\* stopped or superseded tick has written.
C27_VerdictIsOfPublishedSelection ==
    (gen = 1 /\ active /\ gas.isSufficientGas # Null) =>
        \E wallet \in {assets, EmptyWallet} : VerdictMatchesSelection(gas, wallet)

\* two tier records hold the same values (whichever objects they are)
SameTier(a, b) == [a EXCEPT !.oid = NoVal] = [b EXCEPT !.oid = NoVal]

\* C28: whenever selectedGasFee has an option, selectedGasFee.gasFeeParams
\* equals gasFeeParamsBySpeed[option] of the same snapshot, after every
\* operation (the gated Optimism poll and updateGasFeeForSpeed included).
C28_SelectionIsOfPublishedParams ==
    gas.selectedGasFee.option # NoOption =>
        SameTier(gas.selectedGasFee.gasFeeParams,
                 ParamsOf(gas.gasFeeParamsBySpeed, gas.selectedGasFee.option))

\* C29: every poll result written to the store was fetched for the network
\* that txNetwork holds at the time of the write: a tick started for one
\* network never writes after a later start or a stop has changed txNetwork.
C29_PollWritesForStoredNetwork ==
    last.op = "poll" => last.network = gas.txNetwork

\* a fee estimate is published for `option`: the table has the tier and the
\* tier has an amount
HasFeeEstimate(state, option) ==
    /\ option \in DOMAIN state.gasFeesBySpeed
    /\ \/ IsNumber(state.gasFeesBySpeed[option].maxFee.amount)
       \/ IsNumber(state.gasFeesBySpeed[option].estimatedFee.amount)

\* C30: isSufficientGas = true implies that gasFeesBySpeed holds a fee
\* estimate for the selected option and that the native balance covers it.
\* Stated of the first polling loop while it runs and before any custom edit,
\* where no stopped or superseded tick has written and the verdict is not the
\* one a custom edit left behind.
C30_SufficientImpliesFeeKnown ==
    (/\ gen = 1 /\ active /\ ~gas.customGasFeeModifiedByUser
     /\ gas.isSufficientGas = Bool(TRUE)) =>
        /\ HasFeeEstimate(gas, gas.selectedGasFee.option)
        /\ \E wallet \in {assets, EmptyWallet} :
              checkIsSufficientGas(wallet,
                  gas.gasFeesBySpeed[gas.selectedGasFee.option], gas.txNetwork)

\* the custom tier of `state` is its urgent tier
CustomIsUrgent(state) ==
    /\ CUSTOM \in DOMAIN state.gasFeeParamsBySpeed
    /\ URGENT \in DOMAIN state.gasFeeParamsBySpeed
    /\ state.gasFeeParamsBySpeed[CUSTOM] = state.gasFeeParamsBySpeed[URGENT]

\* C31: after every successful EIP-1559 poll applied while
\* customGasFeeModifiedByUser is false, gasFeeParamsBySpeed.custom equals
\* gasFeeParamsBySpeed.urgent of that same poll, so the custom tier is defined
\* once fee data exists.
C31_CustomIsUrgentUntilEdited ==
    (last.op = "poll" /\ ~isL2Network(last.network)
        /\ ~gas.customGasFeeModifiedByUser) => CustomIsUrgent(gas)

\* C32: gasUpdateDefaultGasLimit(L) with a non-zero L sets both defaultGasLimit
\* and gasLimit to L in every state (fee params empty or not, any network), so
\* it overrides a transaction's gasLimit that was stored earlier.
C32_DefaultLimitSetsBothLimits ==
    (last.op = "defaultGasLimit" /\ last.args[1] # 0) =>
        /\ gas.defaultGasLimit = last.args[1]
        /\ gas.gasLimit = last.args[1]

\* the running loop's tick in flight saw the transaction's gas limit 50000 in
\* the store with fee params; the default limit 30000 has replaced it
C32_Witness ==
    /\ last.op = "defaultGasLimit" /\ last.args = <<30000>>
    /\ gen = 1 /\ active
    /\ \E t \in inflight :
          /\ t.cap.gasLimit = 50000
          /\ ~isEmpty(t.cap.gasFeeParamsBySpeed)
    /\ gas.gasLimit = 30000 /\ gas.defaultGasLimit = 30000

\* C33: while txNetwork is Optimism, a non-null l1GasFeeOptimism in the store
\* stays non-null until gasPricesStopPolling or gasPricesStartPolling: no poll
\* result, gas-limit update, option change, custom edit or recompute without
\* an L1 fee resets it to null.
C33_L1FeeStaysKnown ==
    [][(/\ gas.txNetwork = optimism
        /\ gas.l1GasFeeOptimism # Undefined
        /\ last'.op \notin {"start", "stop"})
       => gas'.l1GasFeeOptimism # Undefined]_vars

\* on Optimism the L1 data fee was stored and a later gas-limit update that
\* carried none has left it in place
C33_Witness ==
    /\ gas.txNetwork = optimism /\ gen = 1 /\ active
    /\ last.op = "txFee" /\ last.args = <<50000, NoOption, Undefined>>
    /\ gas.gasLimit = 50000
    /\ gas.l1GasFeeOptimism = L1Fee

\* C34: applying a poll result never changes gasLimit, defaultGasLimit,
\* customGasFeeModifiedByUser, txNetwork or l1GasFeeOptimism: each has the same
\* value after the poll's write as before it, on every network.
C34_PollKeepsUserInput ==
    [][last'.op = "poll" =>
        /\ gas'.gasLimit = gas.gasLimit
        /\ gas'.defaultGasLimit = gas.defaultGasLimit
        /\ gas'.customGasFeeModifiedByUser = gas.customGasFeeModifiedByUser
        /\ gas'.txNetwork = gas.txNetwork
        /\ gas'.l1GasFeeOptimism = gas.l1GasFeeOptimism]_vars

\* a poll result was applied to an Optimism store that held a transaction's
\* gas limit and an L1 data fee, and both are still there
C34_Witness ==
    /\ last.op = "poll" /\ last.network = optimism
    /\ gas.txNetwork = optimism /\ gen = 1 /\ active
    /\ gas.gasLimit = 50000
    /\ gas.defaultGasLimit = basic_tx
    /\ gas.l1GasFeeOptimism = L1Fee

====
